---- MODULE Spec2Model ----
(***************************************************************************)
(* The Windows accessor of the wallpaper library (windows.go): Get,        *)
(* SetFromFile, SetMode, the lock-screen registry check and write, and the *)
(* elevation helper.                                                       *)
(*                                                                         *)
(* A Go string is a sequence of code points in which BadByte stands for a  *)
(* byte that is not part of a valid UTF-8 encoding.  The registry and the  *)
(* desktop-wallpaper setting hold UTF-16 code units.                       *)
(***************************************************************************)
EXTENDS Integers, Sequences, FiniteSets, TLC

\* Bound on the number of public calls in one behaviour.
MaxCalls == 2

---------------------------------------------------------------------------
\* SystemParametersInfo parameters.
spiSetDeskWallpaper == 20
uiParam == 0
spifUpdateINIFile == 1
spifSendChange == 2

\* cap(filename) in Get.
BufLen == 256

\* unicode/utf16 and unicode/utf8 constants.
surr1 == 55296
surr2 == 56320
surr3 == 57344
surrSelf == 65536
replacementChar == 65533
maxRune == 1114111

\* A byte of a Go string that does not belong to valid UTF-8.
BadByte == maxRune + 1

---------------------------------------------------------------------------
\* String conversions.

\* utf16.Encode of one rune of []rune(s): an invalid byte and a surrogate
\* code point become U+FFFD, a rune above U+FFFF becomes a surrogate pair.
EncodeRune(r) ==
    IF r > maxRune \/ (r >= surr1 /\ r < surr3) THEN <<replacementChar>>
    ELSE IF r < surrSelf THEN <<r>>
    ELSE <<surr1 + (((r - surrSelf) \div 1024) % 1024),
           surr2 + ((r - surrSelf) % 1024)>>

\* The runes lo..hi of s, each encoded, in order (halved so that a path of
\* hundreds of units needs no deep recursion).
RECURSIVE EncodeRange(_, _, _)
EncodeRange(s, lo, hi) ==
    IF lo > hi THEN <<>>
    ELSE IF lo = hi THEN EncodeRune(s[lo])
    ELSE LET mid == (lo + hi) \div 2
         IN  EncodeRange(s, lo, mid) \o EncodeRange(s, mid + 1, hi)

\* utf16.Encode([]rune(s)).  Runes below the surrogates encode as themselves.
Encode(s) ==
    IF \A i \in 1..Len(s) : s[i] < surr1 THEN s
    ELSE EncodeRange(s, 1, Len(s))

IsHigh(x) == x >= surr1 /\ x < surr2
IsLow(x) == x >= surr2 /\ x < surr3

\* What utf16.Decode appends when its scan is at unit i: a high surrogate
\* before a low one is one rune and the low one is consumed with it, any
\* other surrogate is U+FFFD.
DecodeAt(u, i) ==
    IF ~IsHigh(u[i]) /\ ~IsLow(u[i]) THEN <<u[i]>>
    ELSE IF IsHigh(u[i]) /\ i + 1 <= Len(u) /\ IsLow(u[i + 1])
         THEN <<((u[i] - surr1) * 1024) + (u[i + 1] - surr2) + surrSelf>>
    ELSE IF IsLow(u[i]) /\ i > 1 /\ IsHigh(u[i - 1]) THEN <<>>
    ELSE <<replacementChar>>

RECURSIVE DecodeRange(_, _, _)
DecodeRange(u, lo, hi) ==
    IF lo > hi THEN <<>>
    ELSE IF lo = hi THEN DecodeAt(u, lo)
    ELSE LET mid == (lo + hi) \div 2
         IN  DecodeRange(u, lo, mid) \o DecodeRange(u, mid + 1, hi)

\* utf16.Decode.  Units without a surrogate decode to themselves.
Decode(u) ==
    IF \A i \in 1..Len(u) : u[i] < surr1 \/ u[i] >= surr3 THEN u
    ELSE DecodeRange(u, 1, Len(u))

\* The units of a NUL-terminated wide string, up to the first NUL.
CString(u) ==
    IF \A i \in 1..Len(u) : u[i] # 0 THEN u
    ELSE SubSeq(u, 1, (CHOOSE i \in 1..Len(u) :
                          u[i] = 0 /\ \A j \in 1..(i - 1) : u[j] # 0) - 1)

\* syscall.UTF16ToString, as registry.GetStringValue uses it.
UTF16ToString(u) == Decode(CString(u))

\* syscall.UTF16PtrFromString: EINVAL when the string holds a NUL, else the
\* NUL-terminated UTF-16 encoding.
UTF16PtrFromString(s) ==
    IF \E i \in 1..Len(s) : s[i] = 0
    THEN [ok |-> FALSE, ptr |-> <<>>]
    ELSE [ok |-> TRUE, ptr |-> Encode(s) \o <<0>>]

\* strings.Trim(s, "\x00").
Trim(s) ==
    LET keep == {i \in 1..Len(s) : s[i] # 0}
    IN  IF keep = {} THEN <<>>
        ELSE SubSeq(s, CHOOSE i \in keep : \A j \in 1..(i - 1) : s[j] = 0,
                       CHOOSE i \in keep : \A j \in (i + 1)..Len(s) : s[j] = 0)

---------------------------------------------------------------------------
\* Inputs.

PathA == <<97, 128512>>
PathOld == <<111, 108, 100>>
PathNul == <<97, 0, 98>>
PathBad == <<97, BadByte>>
PathLong == [i \in 1..BufLen |-> 97]

\* The paths a caller passes to SetFromFile.
Paths == {PathA, PathNul, PathBad, PathLong}


---------------------------------------------------------------------------
\* State.

VARIABLES
    hklm,       \* the two HKEY_LOCAL_MACHINE lock-screen keys and their values
    hkcu,       \* HKEY_CURRENT_USER\Control Panel\Desktop
    wallpaper,  \* the desktop-wallpaper system setting (UTF-16 units)
    alive,      \* whether the process that makes the calls is running
    last,       \* the record of the most recent public call
    ncalls      \* public calls made so far

vars == <<hklm, hkcu, wallpaper, alive, last, ncalls>>

\* Registry values: a string value holds UTF-16 units, a DWORD a number.
NoString == [present |-> FALSE, data |-> <<>>]
NoDword == [present |-> FALSE, data |-> 0]
Sz(s) == [present |-> TRUE, data |-> Encode(s)]
Dword(n) == [present |-> TRUE, data |-> n]

HklmEmpty ==
    [pers |-> FALSE, csp |-> FALSE,
     LockScreenImage |-> NoString, LockScreenImageStatus |-> NoDword,
     LockScreenImagePath |-> NoString, LockScreenImageUrl |-> NoString]

HklmFor(s, status) ==
    [pers |-> TRUE, csp |-> TRUE,
     LockScreenImage |-> Sz(s), LockScreenImageStatus |-> Dword(status),
     LockScreenImagePath |-> Sz(s), LockScreenImageUrl |-> Sz(s)]

\* "" stands for a value that is not there.
HkcuEmpty == [exists |-> FALSE, TileWallpaper |-> "", WallpaperStyle |-> ""]

\* The six modes, and a value of type Mode outside them.
Modes == {"Center", "Crop", "Fit", "Span", "Stretch", "Tile"}
ModeInputs == Modes \cup {"Mode(6)"}

HkcuOps == {"CreateKey:Desktop", "Set:TileWallpaper", "Set:WallpaperStyle"}
HklmOps == {"CreateKey:Personalization", "Set:LockScreenImage",
            "CreateKey:PersonalizationCSP", "Set:LockScreenImageStatus",
            "Set:LockScreenImagePath", "Set:LockScreenImageUrl"}

\* What SPI_GETDESKWALLPAPER does with a buffer too small for the path.
OsGetOutcomes == {"fail", "truncate", "fill"}

NoCall ==
    [op |-> "none", arg |-> <<>>, admin |-> FALSE, ret |-> "nil", err |-> "", code |-> 0,
     failed |-> "", trace |-> <<>>, spi |-> <<>>, file |-> <<>>, val |-> <<>>]

---------------------------------------------------------------------------
\* The code.  A call threads a context c: the registry, the wallpaper and
\* the record of the call (steps taken, return value, system calls made).

Step(c, name) == [c EXCEPT !.trace = Append(@, name)]

\* A registry create or write returned an error, which the caller returns.
Fail(c, op) == [c EXCEPT !.ret = "err", !.err = op, !.failed = op]

\* isAdmin: whether "net session" succeeds in the calling process.
isAdmin(env) == env.admin

\* A buggy runAsAdmin: the spawn is requested and the process goes on.
runAsAdminNoExit(c, env) ==
    LET c0 == Step(c, "os.Executable") IN
    IF ~env.exeOk
    THEN [Step(c0, "log.Fatalf") EXCEPT !.ret = "exit", !.code = 1]
    ELSE LET c1 == Step(c0, "Start-Process") IN
         IF ~env.spawnOk
         THEN [Step(c1, "log.Fatalf") EXCEPT !.ret = "exit", !.code = 1]
         ELSE c1

\* runAsAdmin: never returns; os.Exit(0) after the spawn, log.Fatalf (exit
\* status 1) when the executable path or the spawn fails.
runAsAdmin(c, env) ==
    LET c0 == Step(c, "os.Executable") IN
    IF ~env.exeOk
    THEN [Step(c0, "log.Fatalf") EXCEPT !.ret = "exit", !.code = 1]
    ELSE LET c1 == Step(c0, "Start-Process") IN
         IF ~env.spawnOk
         THEN [Step(c1, "log.Fatalf") EXCEPT !.ret = "exit", !.code = 1]
         ELSE [Step(c1, "os.Exit") EXCEPT !.ret = "exit", !.code = 0]

\* key.GetStringValue(name) = expected.
StringValueIs(v, expected) == v.present /\ UTF16ToString(v.data) = expected

\* A buggy check: LockScreenImageUrl is not compared.
checkRegistryValuesNoUrl(reg, filename) ==
    /\ reg.pers
    /\ StringValueIs(reg.LockScreenImage, filename)
    /\ reg.csp
    /\ reg.LockScreenImageStatus.present /\ reg.LockScreenImageStatus.data = 1
    /\ StringValueIs(reg.LockScreenImagePath, filename)

checkRegistryValues(reg, filename) ==
    /\ reg.pers
    /\ StringValueIs(reg.LockScreenImage, filename)
    /\ reg.csp
    /\ reg.LockScreenImageStatus.present /\ reg.LockScreenImageStatus.data = 1
    /\ StringValueIs(reg.LockScreenImagePath, filename)
    /\ StringValueIs(reg.LockScreenImageUrl, filename)

\* A buggy second half of setLockscreen: LockScreenImageUrl is not written.
setPersonalizationCSPNoUrl(c, value, env) ==
    LET c3 == Step(c, "CreateKey:PersonalizationCSP") IN
    IF env.failOp = "CreateKey:PersonalizationCSP" THEN Fail(c3, "CreateKey:PersonalizationCSP")
    ELSE
    LET c4 == Step([c3 EXCEPT !.hklm.csp = TRUE], "Set:LockScreenImageStatus") IN
    IF env.failOp = "Set:LockScreenImageStatus" THEN Fail(c4, "Set:LockScreenImageStatus")
    ELSE
    LET c5 == Step([c4 EXCEPT !.hklm.LockScreenImageStatus = Dword(1)],
                   "Set:LockScreenImagePath") IN
    IF env.failOp = "Set:LockScreenImagePath" THEN Fail(c5, "Set:LockScreenImagePath")
    ELSE
    LET c6 == Step([c5 EXCEPT !.hklm.LockScreenImagePath = value],
                   "Set:LockScreenImageUrl") IN
    IF env.failOp = "Set:LockScreenImageUrl" THEN Fail(c6, "Set:LockScreenImageUrl")
    ELSE c6

\* The second half of setLockscreen: the PersonalizationCSP key and its three
\* values.
setPersonalizationCSP(c, value, env) ==
    LET c3 == Step(c, "CreateKey:PersonalizationCSP") IN
    IF env.failOp = "CreateKey:PersonalizationCSP" THEN Fail(c3, "CreateKey:PersonalizationCSP")
    ELSE
    LET c4 == Step([c3 EXCEPT !.hklm.csp = TRUE], "Set:LockScreenImageStatus") IN
    IF env.failOp = "Set:LockScreenImageStatus" THEN Fail(c4, "Set:LockScreenImageStatus")
    ELSE
    LET c5 == Step([c4 EXCEPT !.hklm.LockScreenImageStatus = Dword(1)],
                   "Set:LockScreenImagePath") IN
    IF env.failOp = "Set:LockScreenImagePath" THEN Fail(c5, "Set:LockScreenImagePath")
    ELSE
    LET c6 == Step([c5 EXCEPT !.hklm.LockScreenImagePath = value],
                   "Set:LockScreenImageUrl") IN
    IF env.failOp = "Set:LockScreenImageUrl" THEN Fail(c6, "Set:LockScreenImageUrl")
    ELSE [c6 EXCEPT !.hklm.LockScreenImageUrl = value]

setLockscreen(c, filename, env) ==
    LET c0 == Step(c, "isAdmin")
        value == Sz(filename)
    IN
    IF ~isAdmin(env) THEN runAsAdmin(c0, env)
    ELSE
    LET c1 == Step(c0, "CreateKey:Personalization") IN
    IF env.failOp = "CreateKey:Personalization" THEN Fail(c1, "CreateKey:Personalization")
    ELSE
    LET c2 == Step([c1 EXCEPT !.hklm.pers = TRUE], "Set:LockScreenImage") IN
    IF env.failOp = "Set:LockScreenImage" THEN Fail(c2, "Set:LockScreenImage")
    ELSE setPersonalizationCSP([c2 EXCEPT !.hklm.LockScreenImage = value], value, env)

\* The SPI_SETDESKWALLPAPER call; its result is not looked at.
SetDeskWallpaper(c, ptr, env) ==
    [Step(c, "SPI_SETDESKWALLPAPER") EXCEPT
        !.spi = Append(@, [uiAction |-> spiSetDeskWallpaper, uiParam |-> uiParam,
                           pvParam |-> ptr,
                           fWinIni |-> spifUpdateINIFile + spifSendChange]),
        !.wallpaper = IF env.spiOk THEN CString(ptr) ELSE @]

\* A buggy SetFromFile: the error of setLockscreen is dropped.
SetFromFileDropsError(c, filename, env) ==
    LET c0 == Step([c EXCEPT !.file = <<filename>>], "UTF16PtrFromString")
        conv == UTF16PtrFromString(filename)
    IN  IF ~conv.ok THEN [c0 EXCEPT !.ret = "err", !.err = "EINVAL"]
        ELSE
        LET c1 == Step(c0, "checkRegistryValues")
            c2 == IF ~checkRegistryValues(c1.hklm, filename)
                  THEN setLockscreen(c1, filename, env)
                  ELSE c1
        IN  IF c2.ret = "exit" THEN c2
            ELSE SetDeskWallpaper([c2 EXCEPT !.ret = "nil", !.err = ""], conv.ptr, env)

\* A buggy SetFromFile: the path is converted after the lock-screen step.
SetFromFileConvertsLate(c, filename, env) ==
    LET c1 == Step([c EXCEPT !.file = <<filename>>], "checkRegistryValues")
        c2 == IF ~checkRegistryValues(c1.hklm, filename)
              THEN setLockscreen(c1, filename, env)
              ELSE c1
        conv == UTF16PtrFromString(filename)
    IN  IF c2.ret # "nil" THEN c2
        ELSE IF ~conv.ok
             THEN [Step(c2, "UTF16PtrFromString") EXCEPT !.ret = "err", !.err = "EINVAL"]
        ELSE SetDeskWallpaper(Step(c2, "UTF16PtrFromString"), conv.ptr, env)

SetFromFile(c, filename, env) ==
    LET c0 == Step([c EXCEPT !.file = <<filename>>], "UTF16PtrFromString")
        conv == UTF16PtrFromString(filename)
    IN  IF ~conv.ok THEN [c0 EXCEPT !.ret = "err", !.err = "EINVAL"]
        ELSE
        LET c1 == Step(c0, "checkRegistryValues")
            c2 == IF ~checkRegistryValues(c1.hklm, filename)
                  THEN setLockscreen(c1, filename, env)
                  ELSE c1
        IN  IF c2.ret # "nil" THEN c2
            ELSE SetDeskWallpaper(c2, conv.ptr, env)

\* How many units of the wallpaper path SPI_GETDESKWALLPAPER leaves in the
\* buffer: the whole path when it fits with its terminating NUL, otherwise
\* none, or as many as fit with or without a terminator.
Copied(wall, osGet) ==
    IF Len(wall) + 1 <= BufLen THEN Len(wall)
    ELSE IF osGet = "fail" THEN 0
    ELSE IF osGet = "truncate" THEN BufLen - 1
    ELSE BufLen

\* Get: the zeroed 256-unit buffer after SPI_GETDESKWALLPAPER, decoded and
\* trimmed.  The units the call did not write are NUL, decode to NUL and are
\* trimmed, so the result is that of the units written.  The result of the
\* system call is not looked at and the error is always nil.
Get(wall, osGet) == Trim(Decode(SubSeq(wall, 1, Copied(wall, osGet))))

\* A buggy table: Crop gets the code of Fit.
StyleOfCropAsFit(mode) ==
    CASE mode \in {"Center", "Tile"} -> "0"
      [] mode \in {"Fit", "Crop"} -> "6"
      [] mode = "Span" -> "22"
      [] mode = "Stretch" -> "2"
      [] OTHER -> ""

\* The style code of a mode; "" for a value outside the six (the panic).
StyleOf(mode) ==
    CASE mode \in {"Center", "Tile"} -> "0"
      [] mode = "Fit" -> "6"
      [] mode = "Span" -> "22"
      [] mode = "Stretch" -> "2"
      [] mode = "Crop" -> "10"
      [] OTHER -> ""

TileOf(mode) == IF mode = "Tile" THEN "1" ELSE "0"

\* A buggy SetMode: the error of the TileWallpaper write is not returned.
SetModeIgnoresTileError(c, mode, env) ==
    LET c0 == Step(c, "CreateKey:Desktop") IN
    IF env.failOp = "CreateKey:Desktop" THEN Fail(c0, "CreateKey:Desktop")
    ELSE
    LET c1 == Step([c0 EXCEPT !.hkcu.exists = TRUE], "Set:TileWallpaper")
        c2 == IF env.failOp = "Set:TileWallpaper"
              THEN [c1 EXCEPT !.failed = "Set:TileWallpaper"]
              ELSE [c1 EXCEPT !.hkcu.TileWallpaper = TileOf(mode)]
    IN
    IF StyleOf(mode) = "" THEN [Step(c2, "panic") EXCEPT !.ret = "panic", !.code = 2]
    ELSE
    LET c3 == Step(c2, "Set:WallpaperStyle") IN
    IF env.failOp = "Set:WallpaperStyle" THEN Fail(c3, "Set:WallpaperStyle")
    ELSE
    LET c4 == Step([c3 EXCEPT !.hkcu.WallpaperStyle = StyleOf(mode)],
                   "SPI_GETDESKWALLPAPER")
    IN  SetFromFile(c4, Get(c4.wallpaper, env.osGet), env)

SetMode(c, mode, env) ==
    LET c0 == Step(c, "CreateKey:Desktop") IN
    IF env.failOp = "CreateKey:Desktop" THEN Fail(c0, "CreateKey:Desktop")
    ELSE
    LET c1 == Step([c0 EXCEPT !.hkcu.exists = TRUE], "Set:TileWallpaper") IN
    IF env.failOp = "Set:TileWallpaper" THEN Fail(c1, "Set:TileWallpaper")
    ELSE
    LET c2 == [c1 EXCEPT !.hkcu.TileWallpaper = TileOf(mode)] IN
    IF StyleOf(mode) = "" THEN [Step(c2, "panic") EXCEPT !.ret = "panic", !.code = 2]
    ELSE
    LET c3 == Step(c2, "Set:WallpaperStyle") IN
    IF env.failOp = "Set:WallpaperStyle" THEN Fail(c3, "Set:WallpaperStyle")
    ELSE
    LET c4 == Step([c3 EXCEPT !.hkcu.WallpaperStyle = StyleOf(mode)],
                   "SPI_GETDESKWALLPAPER")
    IN  SetFromFile(c4, Get(c4.wallpaper, env.osGet), env)

---------------------------------------------------------------------------
\* Operations.

\* What the environment does during a call: whether the calling process is
\* elevated, which registry create or write fails (if any), whether the
\* executable path and the elevated spawn succeed, whether the system takes
\* the new wallpaper, and what it does with a buffer that is too small.
\* Outcomes no step of the call can meet are held at one value.
AllEnvs(failOps) ==
    {e \in [admin : BOOLEAN,
            failOp : failOps \cup {"none"},
            exeOk : BOOLEAN, spawnOk : BOOLEAN, spiOk : BOOLEAN,
            osGet : OsGetOutcomes] :
        /\ e.admin => e.exeOk /\ e.spawnOk
        /\ ~e.admin => e.failOp \notin HklmOps
        /\ e.failOp \in HkcuOps => e.exeOk /\ e.spawnOk
        /\ ~e.exeOk => ~e.spawnOk
        /\ e.failOp # "none" => e.spiOk}

GetEnvs == {e \in AllEnvs({}) : ~e.admin /\ e.exeOk /\ e.spawnOk /\ e.spiOk}
FileEnvs == AllEnvs(HklmOps)
ModeEnvs == AllEnvs(HkcuOps \cup HklmOps)

\* The environments of a call made in the current state.
Envs(all) == {e \in all : Len(wallpaper) + 1 <= BufLen => e.osGet = "fill"}

\* The context a call starts from.
Ctx(op, arg, env) ==
    [hklm |-> hklm, hkcu |-> hkcu, wallpaper |-> wallpaper,
     op |-> op, arg |-> arg, admin |-> env.admin, ret |-> "nil", err |-> "",
     code |-> 0, failed |-> "", trace |-> <<>>, spi |-> <<>>, file |-> <<>>,
     val |-> <<>>]

\* The state a finished call leaves.
Commit(c) ==
    /\ hklm' = c.hklm
    /\ hkcu' = c.hkcu
    /\ wallpaper' = c.wallpaper
    /\ alive' = (c.ret \notin {"exit", "panic"})
    /\ last' = [op |-> c.op, arg |-> c.arg, admin |-> c.admin, ret |-> c.ret,
                err |-> c.err, code |-> c.code, failed |-> c.failed,
                trace |-> c.trace, spi |-> c.spi, file |-> c.file, val |-> c.val]
    /\ ncalls' = ncalls + 1

CallGet ==
    /\ alive /\ ncalls < MaxCalls
    /\ \E env \in Envs(GetEnvs) :
          Commit([Step(Ctx("Get", <<>>, env), "SPI_GETDESKWALLPAPER")
                  EXCEPT !.val = Get(wallpaper, env.osGet)])

CallSetFromFile ==
    /\ alive /\ ncalls < MaxCalls
    /\ \E filename \in Paths, env \in Envs(FileEnvs) :
          Commit(SetFromFile(Ctx("SetFromFile", filename, env), filename, env))

CallSetMode ==
    /\ alive /\ ncalls < MaxCalls
    /\ \E mode \in ModeInputs, env \in Envs(ModeEnvs) :
          Commit(SetMode(Ctx("SetMode", mode, env), mode, env))

\* The program is started again: elevated by runAsAdmin's Start-Process
\* -Verb RunAs, or by the user.
StartProcess ==
    /\ ~alive
    /\ alive' = TRUE
    /\ UNCHANGED <<hklm, hkcu, wallpaper, last, ncalls>>

Init ==
    /\ hklm \in {HklmEmpty, HklmFor(PathA, 0)}
    /\ hkcu = HkcuEmpty
    /\ wallpaper = Encode(PathOld)
    /\ alive = TRUE
    /\ last = NoCall
    /\ ncalls = 0

Next == CallGet \/ CallSetFromFile \/ CallSetMode \/ StartProcess

Spec == Init /\ [][Next]_vars

---------------------------------------------------------------------------
\* Vocabulary of the properties.

\* This step is a public call.
IsCall == ncalls' = ncalls + 1

\* The call took this step.
InTrace(rec, step) == \E i \in 1..Len(rec.trace) : rec.trace[i] = step

\* The call created or wrote (or tried to) under HKEY_LOCAL_MACHINE.
TouchedHklm(rec) == \E i \in 1..Len(rec.trace) : rec.trace[i] \in HklmOps

\* The call went into the elevation path: admin detection, relaunch, exit.
EnteredElevation(rec) ==
    \/ InTrace(rec, "isAdmin") \/ InTrace(rec, "os.Executable")
    \/ InTrace(rec, "Start-Process") \/ InTrace(rec, "os.Exit")
    \/ InTrace(rec, "log.Fatalf") \/ rec.ret = "exit"

\* The call invoked SetFromFile (itself, or from SetMode) with this path.
CalledSetFromFile(rec) == rec.file # <<>>
FileOf(rec) == rec.file[1]

\* The path is valid UTF-8: no invalid byte and no surrogate code point, so
\* the conversion to UTF-16 and back leaves it as it is.
ValidUTF8(p) ==
    \A i \in 1..Len(p) : p[i] <= maxRune /\ (p[i] < surr1 \/ p[i] >= surr3)

\* The path has a native UTF-16 form: it holds no NUL.
Convertible(p) == \A i \in 1..Len(p) : p[i] # 0

\* The desktop-wallpaper system call was issued once, for p, with the
\* persist and broadcast flags.
IssuedFor(rec, p) ==
    /\ Len(rec.spi) = 1
    /\ rec.spi[1].uiAction = spiSetDeskWallpaper
    /\ rec.spi[1].fWinIni = 3
    /\ rec.spi[1].pvParam = Encode(p) \o <<0>>

\* A registry string value that reads back as p.
ReadsAs(v, p) == v.present /\ Decode(CString(v.data)) = p

\* The four lock-screen values all match p.
FourValuesMatch(reg, p) ==
    /\ reg.pers /\ reg.csp
    /\ ReadsAs(reg.LockScreenImage, p)
    /\ reg.LockScreenImageStatus = Dword(1)
    /\ ReadsAs(reg.LockScreenImagePath, p)
    /\ ReadsAs(reg.LockScreenImageUrl, p)

\* The call went through setLockscreen in an elevated process with every
\* create and write succeeding, and returned nil.
ElevatedPass(rec) ==
    /\ CalledSetFromFile(rec) /\ rec.admin /\ rec.ret = "nil"
    /\ InTrace(rec, "Set:LockScreenImageUrl")

\* The style codes and the tile flag of the six modes.
StyleTable ==
    [m \in Modes |->
        CASE m = "Center" -> "0" [] m = "Tile" -> "0" [] m = "Stretch" -> "2"
          [] m = "Crop" -> "10" [] m = "Fit" -> "6" [] m = "Span" -> "22"]

---------------------------------------------------------------------------
\* C1.  Original statement: every SetFromFile(p) whose path conversion
\* succeeds issues the SPI_SETDESKWALLPAPER call for p with the persist and
\* broadcast flags, whatever the lock-screen step did.
C1_Original ==
    (CalledSetFromFile(last) /\ Convertible(FileOf(last)))
        => IssuedFor(last, FileOf(last))

\* C1, amended: a SetFromFile(p) whose path conversion succeeds issues the
\* call for p with the persist and broadcast flags exactly when the
\* lock-screen step ends without error in the calling process: the four
\* values already matched p, or the process is elevated and every create and
\* write of setLockscreen succeeded.  Otherwise no such call is issued.
C1_Amended ==
    [][(IsCall /\ CalledSetFromFile(last') /\ Convertible(FileOf(last')))
        => /\ IssuedFor(last', FileOf(last'))
                <=> \/ FourValuesMatch(hklm, FileOf(last'))
                    \/ last'.admin /\ last'.failed = ""
           /\ ~IssuedFor(last', FileOf(last')) => last'.spi = <<>>]_vars

\* C1 witness: an elevated call wrote the lock-screen values and issued the
\* system call for its path.
C1_Witness ==
    /\ last.op = "SetFromFile" /\ ElevatedPass(last)
    /\ IssuedFor(last, last.arg)

C3_Original ==
    [][(IsCall /\ last'.op = "SetFromFile")
        => /\ FourValuesMatch(hklm, last'.arg)
                => ~EnteredElevation(last') /\ ~TouchedHklm(last') /\ hklm' = hklm
           /\ ~FourValuesMatch(hklm, last'.arg) => InTrace(last', "isAdmin")]_vars

\* C3, amended: with the four values matching p, SetFromFile(p) stays out of
\* the elevation path and writes nothing under HKLM, elevated or not; with
\* any of them missing or different and p convertible to UTF-16 (no NUL in
\* it), it enters the elevation path.
C3_Amended ==
    [][(IsCall /\ CalledSetFromFile(last'))
        => /\ FourValuesMatch(hklm, FileOf(last'))
                => ~EnteredElevation(last') /\ ~TouchedHklm(last') /\ hklm' = hklm
           /\ (~FourValuesMatch(hklm, FileOf(last')) /\ Convertible(FileOf(last')))
                => InTrace(last', "isAdmin")]_vars

\* C3 witness: an unprivileged call found the four values matching its path,
\* stayed out of the elevation path and returned nil.
C3_Witness ==
    /\ last.op = "SetFromFile" /\ ~last.admin /\ last.ret = "nil"
    /\ FourValuesMatch(hklm, last.arg)
    /\ ~EnteredElevation(last)

\* C4.  SetMode(mode) for each of the six modes, once its three registry
\* operations on HKCU succeed, leaves TileWallpaper "1" exactly for Tile and
\* WallpaperStyle as the table says, whatever the rest of the call does.
C4_ModeTable ==
    (last.op = "SetMode" /\ last.arg \in Modes /\ last.failed \notin HkcuOps)
        => /\ hkcu.exists
           /\ hkcu.TileWallpaper = (IF last.arg = "Tile" THEN "1" ELSE "0")
           /\ hkcu.WallpaperStyle = StyleTable[last.arg]

\* C4 witness: SetMode(Crop) returned nil.
C4_Witness ==
    /\ last.op = "SetMode" /\ last.arg = "Crop" /\ last.ret = "nil"
    /\ hkcu.WallpaperStyle = "10" /\ hkcu.TileWallpaper = "0"

\* C5.  SetMode with a value outside the six modes panics, does not return
\* normally and writes no WallpaperStyle.
C5_Original ==
    (last.op = "SetMode" /\ last.arg \notin Modes)
        => /\ last.ret = "panic"
           /\ ~InTrace(last, "Set:WallpaperStyle")

\* C6.  A Get right after a SetFromFile(p) that returned nil returns p and a
\* nil error.
C6_Original ==
    [][(last.op = "SetFromFile" /\ last.ret = "nil" /\ IsCall /\ last'.op = "Get")
        => last'.val = last.arg /\ last'.ret = "nil"]_vars

\* C7.  A registry create or write that fails inside SetMode or inside the
\* lock-screen step is returned as it is: the call returns that error, the
\* failed operation is the last step taken and was tried once, and no
\* wallpaper call follows.
C7_ErrorReturned ==
    (last.failed # "")
        => /\ last.ret = "err" /\ last.err = last.failed
           /\ last.trace[Len(last.trace)] = last.failed
           /\ Cardinality({i \in 1..Len(last.trace) : last.trace[i] = last.failed}) = 1
           /\ last.spi = <<>>

\* C7 witness: the TileWallpaper write failed inside SetMode.
C7_Witness ==
    /\ last.op = "SetMode" /\ last.failed = "Set:TileWallpaper"
    /\ last.ret = "err"

\* C8.  A SetFromFile whose path has no UTF-16 form returns the conversion
\* error at once and changes nothing: no registry read or write, no admin
\* detection or relaunch, no wallpaper call.
C8_ConversionFailure ==
    [][(IsCall /\ last'.op = "SetFromFile" /\ ~Convertible(last'.arg))
        => /\ last'.ret = "err" /\ last'.err = "EINVAL"
           /\ last'.trace = <<"UTF16PtrFromString">>
           /\ last'.spi = <<>>
           /\ UNCHANGED <<hklm, hkcu, wallpaper, alive>>]_vars

\* C8 witness: SetFromFile of a path with a NUL returned EINVAL.
C8_Witness ==
    /\ last.op = "SetFromFile" /\ last.arg = PathNul
    /\ last.ret = "err" /\ last.err = "EINVAL"

\* C9.  A SetMode with a value outside the six modes leaves TileWallpaper and
\* WallpaperStyle as they were.
C9_Original ==
    [][(IsCall /\ last'.op = "SetMode" /\ last'.arg \notin Modes)
        => /\ hkcu'.TileWallpaper = hkcu.TileWallpaper
           /\ hkcu'.WallpaperStyle = hkcu.WallpaperStyle]_vars

\* C10.  Original statement: after a SetFromFile(p) that completed in an
\* elevated process with every registry write succeeding,
\* checkRegistryValues(p) is true, and the SetFromFile(p) that follows it, in
\* any process, does no admin detection, no relaunch and no HKLM write.
C10_Original ==
    [][/\ (IsCall /\ ElevatedPass(last'))
            => checkRegistryValues(hklm', FileOf(last'))
       /\ (ElevatedPass(last) /\ IsCall /\ last'.op = "SetFromFile"
                /\ last'.arg = FileOf(last))
            => ~EnteredElevation(last') /\ ~TouchedHklm(last') /\ hklm' = hklm]_vars

\* C10, amended: for a path p that is valid UTF-8 (one the conversion to
\* UTF-16 and back leaves as it is), after a SetFromFile(p) that completed in
\* an elevated process with every registry write succeeding,
\* checkRegistryValues(p) is true, and the SetFromFile(p) that follows it, in
\* any process, does no admin detection, no relaunch and no HKLM write.
C10_Amended ==
    [][/\ (IsCall /\ ElevatedPass(last') /\ ValidUTF8(FileOf(last')))
            => checkRegistryValues(hklm', FileOf(last'))
       /\ (ElevatedPass(last) /\ ValidUTF8(FileOf(last)) /\ IsCall
                /\ last'.op = "SetFromFile" /\ last'.arg = FileOf(last))
            => ~EnteredElevation(last') /\ ~TouchedHklm(last') /\ hklm' = hklm]_vars

\* C10 witness: the second of two calls, unprivileged, found the values an
\* elevated pass had written for the 256-unit path and returned nil without
\* entering the elevation path.
C10_Witness ==
    /\ ncalls = 2 /\ last.op = "SetFromFile" /\ last.arg = PathLong
    /\ ~last.admin /\ last.ret = "nil" /\ ~InTrace(last, "isAdmin")
    /\ checkRegistryValues(hklm, PathLong)

====
